---- MODULE Spec2Model ----
(***************************************************************************)
(* Model of generate_version_report.py: the day-by-day replay of the       *)
(* issues' changelogs (calculate_project_status_to_date), the linear       *)
(* projection of the completed story points (projection_of_progress), the  *)
(* concatenation done by plot_version_report and the try/except of the     *)
(* __main__ block.                                                         *)
(*                                                                         *)
(* Calendar days are the integers 1..MaxDay+2.  A changelog history is     *)
(* [created, items]; `created` is the calendar day of its timestamp: the   *)
(* histories of one issue lie on distinct days, so sorting by timestamp    *)
(* and sorting by day agree (changes made together are the items of one    *)
(* history).  Story points are integers; the text of a size estimate is    *)
(* kept as text and parsed by Float.  The run does not cross midnight:     *)
(* both calls of datetime.now().date() give `today`.  The version has a    *)
(* start date and a release date.                                          *)
(*                                                                         *)
(* The fitted line and everything predicted from it are exact rationals    *)
(* kept as numerators over the common denominator model.den.               *)
(***************************************************************************)
EXTENDS Integers, Sequences, FiniteSets, TLC

VARIABLES issues, version, today, pc, raised, printed,
          earliest_date, latest_date, current_date, data,
          cumulative_story_points_completed,
          cumulative_estimated_story_points,
          cumulative_unestimated_stories,
          total_story_count, last_known_values,
          version_start_date, historical_data,
          model, projected_points, conf_int, projected_data, combined_df

vars == <<issues, version, today, pc, raised, printed,
          earliest_date, latest_date, current_date, data,
          cumulative_story_points_completed,
          cumulative_estimated_story_points,
          cumulative_unestimated_stories,
          total_story_count, last_known_values,
          version_start_date, historical_data,
          model, projected_points, conf_int, projected_data, combined_df>>

(* ---------------------------- bounds ---------------------------------- *)
MaxDay == 4
MaxIssues == 2
MaxHistories == 4
MaxHalfWidth == 1

Days == 1..MaxDay

(* The value Python's None has in the model: no float of the model.        *)
None == -1

(* ------------------------- the change log ------------------------------ *)
StatusField == "status"
EstimateField == "Story point estimate"

Item(f, s) == [field |-> f, toString |-> s]

(* float(item.toString) if item.toString else float(0.0)                   *)
Float(s) == CASE s = "3" -> 3
              [] s = "5" -> 5
              [] OTHER -> 0

ParseStoryPoints(s) == IF s # "" THEN Float(s) ELSE 0

Last(s) == s[Len(s)]
Front(s) == SubSeq(s, 1, Len(s) - 1)
Reverse(s) == [i \in 1..Len(s) |-> s[Len(s) + 1 - i]]

(* ------------------ calculate_project_status_to_date ------------------- *)

(* sorted(issue.changelog.histories, key=created): a stable sort.          *)
RECURSIVE InsertByCreated(_, _)
InsertByCreated(sorted, h) ==
    IF sorted = <<>> THEN <<h>>
    ELSE IF Head(sorted).created <= h.created
         THEN <<Head(sorted)>> \o InsertByCreated(Tail(sorted), h)
         ELSE <<h>> \o sorted

RECURSIVE SortByCreated(_)
SortByCreated(hs) ==
    IF hs = <<>> THEN <<>>
    ELSE InsertByCreated(SortByCreated(Front(hs)), Last(hs))

sorted_histories(issue) == SortByCreated(issue.histories)

(* for item in history.items: the last status and the last estimate win.   *)
RECURSIVE ApplyItems(_, _)
ApplyItems(items, st) ==
    IF items = <<>> THEN st
    ELSE LET item == Head(items)
             st2 == IF item.field = StatusField
                    THEN [st EXCEPT !.completed = (item.toString = "Done")]
                    ELSE IF item.field = EstimateField
                    THEN [st EXCEPT !.story_points = ParseStoryPoints(item.toString)]
                    ELSE st
         IN ApplyItems(Tail(items), st2)

(* for history in sorted_histories: break at the first one after the day.  *)
RECURSIVE ScanHistories(_, _, _)
ScanHistories(hs, day, st) ==
    IF hs = <<>> THEN st
    ELSE IF Head(hs).created > day THEN st
    ELSE ScanHistories(Tail(hs), day, ApplyItems(Head(hs).items, st))

StateAsOf(issue, day) ==
    ScanHistories(sorted_histories(issue), day,
                  [story_points |-> 0, completed |-> FALSE])

DeltaAlways(story_points, last_story_points) == story_points

delta_story_points(story_points, last_story_points) ==
    IF last_story_points = 0
    THEN story_points
    ELSE story_points - last_story_points

UnestimatedCount(memo) ==
    Cardinality({k \in DOMAIN memo : memo[k].story_points = None})

(* The body of `for issue in issues` for one issue on one day; acc holds   *)
(* the three running totals and the memo last_known_values.                *)
UpdateIssue(acc, issue, day) ==
    LET st == StateAsOf(issue, day)
        story_points == st.story_points
        completed == st.completed
        last_story_points == acc.memo[issue.key].story_points
        last_completed == acc.memo[issue.key].completed
        spChanged == story_points # last_story_points
        cChanged == completed # last_completed
        estimated2 ==
            IF spChanged
            THEN acc.estimated + delta_story_points(story_points, last_story_points)
            ELSE acc.estimated
        completed2 ==
            IF ~cChanged THEN acc.completed
            ELSE IF completed THEN acc.completed + story_points
            ELSE IF last_completed THEN acc.completed - last_story_points
            ELSE acc.completed
        memo2 == [acc.memo EXCEPT ![issue.key] =
                     [story_points |-> IF spChanged THEN story_points
                                       ELSE last_story_points,
                      completed |-> IF cChanged THEN completed
                                    ELSE last_completed]]
    IN IF issue.issuetype = "Story"
       THEN [completed |-> completed2, estimated |-> estimated2,
             unestimated |-> UnestimatedCount(memo2), memo |-> memo2]
       ELSE acc

RECURSIVE UpdateIssues(_, _, _)
UpdateIssues(acc, rest, day) ==
    IF rest = <<>> THEN acc
    ELSE UpdateIssues(UpdateIssue(acc, Head(rest), day), Tail(rest), day)

unestimated_percentage(count, total) ==
    IF total > 0 THEN (count * 100) \div total ELSE 0

AllHistoryDays ==
    UNION {{issues[i].histories[j].created : j \in 1..Len(issues[i].histories)} :
              i \in 1..Len(issues)}

MinDay(S) == CHOOSE x \in S : \A y \in S : x <= y

StoryCount == Cardinality({i \in 1..Len(issues) : issues[i].issuetype = "Story"})

FilterAfter(rows, start) == SelectSeq(rows, LAMBDA r : r.Date > start)

(* historical_data[historical_data['Date'] >= version_start_date]          *)
FilterFromStartDate(rows, start) == SelectSeq(rows, LAMBDA r : r.Date >= start)

WithDays(rows) ==
    [i \in 1..Len(rows) |->
        [Date |-> rows[i].Date, Completed |-> rows[i].Completed,
         Estimated |-> rows[i].Estimated, Unestimated |-> rows[i].Unestimated,
         Days |-> rows[i].Date - rows[1].Date]]

(* lines 39-42: no issues: a message is printed and None is returned.      *)
ReturnNoIssues ==
    /\ pc = "calc"
    /\ issues = <<>>
    /\ printed' = Append(printed, "No issues found")
    /\ pc' = "unpack_none"
    /\ UNCHANGED <<issues, version, today, raised,
                   earliest_date, latest_date, current_date, data,
                   cumulative_story_points_completed,
                   cumulative_estimated_story_points,
                   cumulative_unestimated_stories,
                   total_story_count, last_known_values,
                   version_start_date, historical_data,
                   model, projected_points, conf_int, projected_data, combined_df>>

(* line 266: unpacking None into two names raises TypeError, which the     *)
(* except clause of line 269 does not catch.                               *)
UnpackNone ==
    /\ pc = "unpack_none"
    /\ raised' = "TypeError"
    /\ pc' = "crashed"
    /\ UNCHANGED <<issues, version, today, printed,
                   earliest_date, latest_date, current_date, data,
                   cumulative_story_points_completed,
                   cumulative_estimated_story_points,
                   cumulative_unestimated_stories,
                   total_story_count, last_known_values,
                   version_start_date, historical_data,
                   model, projected_points, conf_int, projected_data, combined_df>>

(* lines 44-56: issues without any history: min() of an empty sequence     *)
(* raises ValueError.                                                      *)
RaiseNoHistories ==
    /\ pc = "calc"
    /\ issues # <<>>
    /\ AllHistoryDays = {}
    /\ version_start_date' = version.startDate - 1
    /\ raised' = "ValueError"
    /\ pc' = "except"
    /\ UNCHANGED <<issues, version, today, printed,
                   earliest_date, latest_date, current_date, data,
                   cumulative_story_points_completed,
                   cumulative_estimated_story_points,
                   cumulative_unestimated_stories,
                   total_story_count, last_known_values, historical_data,
                   model, projected_points, conf_int, projected_data, combined_df>>

(* lines 44-70: the day range, the totals and the memo are set up.         *)
BeginReplay ==
    /\ pc = "calc"
    /\ issues # <<>>
    /\ AllHistoryDays # {}
    /\ version_start_date' = version.startDate - 1
    /\ earliest_date' = MinDay(AllHistoryDays)
    /\ latest_date' = today
    /\ data' = <<>>
    /\ cumulative_story_points_completed' = 0
    /\ cumulative_estimated_story_points' = 0
    /\ cumulative_unestimated_stories' = 0
    /\ total_story_count' = StoryCount
    /\ last_known_values' =
          [k \in {issues[i].key : i \in 1..Len(issues)} |->
              [story_points |-> 0, completed |-> FALSE]]
    /\ current_date' = MinDay(AllHistoryDays)
    /\ pc' = "loop"
    /\ UNCHANGED <<issues, version, today, raised, printed, historical_data,
                   model, projected_points, conf_int, projected_data, combined_df>>

(* lines 71-128: one iteration of the while loop, every issue included.    *)
ReplayDay ==
    /\ pc = "loop"
    /\ current_date <= latest_date
    /\ LET acc == UpdateIssues(
                     [completed |-> cumulative_story_points_completed,
                      estimated |-> cumulative_estimated_story_points,
                      unestimated |-> cumulative_unestimated_stories,
                      memo |-> last_known_values],
                     issues, current_date)
       IN /\ cumulative_story_points_completed' = acc.completed
          /\ cumulative_estimated_story_points' = acc.estimated
          /\ cumulative_unestimated_stories' = acc.unestimated
          /\ last_known_values' = acc.memo
          /\ data' = Append(data,
                 [Date |-> current_date,
                  Completed |-> acc.completed,
                  Estimated |-> acc.estimated,
                  Unestimated |-> unestimated_percentage(acc.unestimated,
                                                         total_story_count)])
    /\ current_date' = current_date + 1
    /\ UNCHANGED <<issues, version, today, pc, raised, printed,
                   earliest_date, latest_date, total_story_count,
                   version_start_date, historical_data,
                   model, projected_points, conf_int, projected_data, combined_df>>

(* lines 130-138: the rows from the day before the version's start date    *)
(* on are kept and numbered; the frame is returned to line 266.            *)
ReturnHistorical ==
    /\ pc = "loop"
    /\ current_date > latest_date
    /\ historical_data' = WithDays(FilterFromStartDate(data, version_start_date))
    /\ pc' = "projection"
    /\ UNCHANGED <<issues, version, today, raised, printed,
                   earliest_date, latest_date, current_date, data,
                   cumulative_story_points_completed,
                   cumulative_estimated_story_points,
                   cumulative_unestimated_stories,
                   total_story_count, last_known_values, version_start_date,
                   model, projected_points, conf_int, projected_data, combined_df>>

(* ------------------------ projection_of_progress ----------------------- *)

RECURSIVE SumSeq(_)
SumSeq(s) == IF s = <<>> THEN 0 ELSE Head(s) + SumSeq(Tail(s))

NoModel == [den |-> 0, const |-> 0, Days |-> 0]

(* sm.OLS(y, add_constant(Days)).fit(): const = model.const / model.den,   *)
(* slope = model.Days / model.den.  With a single row the pseudo-inverse   *)
(* gives the solution of least norm.                                       *)
OLSFit(hist) ==
    LET n == Len(hist)
        x == [i \in 1..n |-> hist[i].Days]
        y == [i \in 1..n |-> hist[i].Completed]
        Sx == SumSeq(x)
        Sy == SumSeq(y)
        Sxx == SumSeq([i \in 1..n |-> x[i] * x[i]])
        Sxy == SumSeq([i \in 1..n |-> x[i] * y[i]])
        D == n * Sxx - Sx * Sx
        slope == n * Sxy - Sx * Sy
    IN IF n = 1
       THEN [den |-> 1 + x[1] * x[1], const |-> y[1], Days |-> x[1] * y[1]]
       ELSE [den |-> n * D, const |-> Sy * D - slope * Sx, Days |-> n * slope]

(* model.predict: the numerator of const + slope * days over model.den.    *)
Predict(fit, days) == fit.const + fit.Days * days

DateRangeAfter(first, last) ==
    IF last > first THEN [i \in 1..(last - first) |-> first + i] ELSE <<>>

(* pd.date_range(first, last, freq='D'): both ends included.               *)
DateRange(first, last) ==
    IF last >= first THEN [i \in 1..(last - first + 1) |-> first + i - 1] ELSE <<>>

future_dates == DateRange(today, version.releaseDate)

(* (future_dates - historical_data['Date'].min()).days                     *)
future_days ==
    IF historical_data = <<>> THEN <<>>
    ELSE [i \in 1..Len(future_dates) |-> future_dates[i] - historical_data[1].Date]

(* sm.add_constant(..., has_constant='skip') adds no column of ones when   *)
(* the column is already a non-zero constant (a single non-zero row).      *)
ConstantSkipped(days) ==
    /\ days # <<>>
    /\ \A i \in 1..Len(days) : days[i] = days[1]
    /\ days[1] # 0

ShiftFromLast(start_value, points) == start_value - points[Len(points)]

Shift(start_value, points) == start_value - points[1]

(* predictions.conf_int(alpha=0.05) before the shift: the prediction       *)
(* minus and plus a half-width; w stands for the half-width the library    *)
(* computes from the residuals.                                            *)
ConfInt(points, days, w) ==
    [i \in 1..Len(points) |->
        <<points[i] - w * (days[i] + 1), points[i] + w * (days[i] + 1)>>]

ProjectedRows(dates, days, points, ci, start_value, estimated) ==
    [i \in 1..Len(dates) |->
        [Date |-> dates[i], Days |-> days[i],
         Projected |-> points[i] + Shift(start_value, points),
         Estimated |-> estimated,
         Lower |-> ci[i][1] + Shift(start_value, points),
         Upper |-> ci[i][2] + Shift(start_value, points)]]

ProjectionFails ==
    \/ historical_data = <<>>
    \/ future_dates = <<>>
    \/ ConstantSkipped(future_days)

(* lines 140-178 when every step succeeds.                                 *)
Projection ==
    /\ pc = "projection"
    /\ ~ProjectionFails
    /\ \E w \in 0..MaxHalfWidth :
         LET fit == OLSFit(historical_data)
             points == [i \in 1..Len(future_days) |-> Predict(fit, future_days[i])]
             ci == ConfInt(points, future_days, w)
             start_value == Last(historical_data).Completed * fit.den
         IN /\ model' = fit
            /\ projected_points' = points
            /\ conf_int' = ci
            /\ projected_data' =
                  ProjectedRows(future_dates, future_days, points, ci, start_value,
                                Last(historical_data).Estimated)
    /\ pc' = "plot"
    /\ UNCHANGED <<issues, version, today, raised, printed,
                   earliest_date, latest_date, current_date, data,
                   cumulative_story_points_completed,
                   cumulative_estimated_story_points,
                   cumulative_unestimated_stories,
                   total_story_count, last_known_values,
                   version_start_date, historical_data, combined_df>>

(* lines 140-161 when a step raises: the fit of an empty frame             *)
(* (ValueError), the first element of an empty projection (IndexError),    *)
(* the prediction from a frame without its column of ones (ValueError).    *)
ProjectionRaises ==
    /\ pc = "projection"
    /\ ProjectionFails
    /\ model' = IF historical_data = <<>> THEN model ELSE OLSFit(historical_data)
    /\ raised' = IF historical_data # <<>> /\ future_dates = <<>>
                 THEN "IndexError" ELSE "ValueError"
    /\ pc' = "except"
    /\ UNCHANGED <<issues, version, today, printed,
                   earliest_date, latest_date, current_date, data,
                   cumulative_story_points_completed,
                   cumulative_estimated_story_points,
                   cumulative_unestimated_stories,
                   total_story_count, last_known_values,
                   version_start_date, historical_data,
                   projected_points, conf_int, projected_data, combined_df>>

(* --------------------- plot_version_report, __main__ ------------------- *)

(* lines 180-183: pd.concat([historical_data, projected_data]).            *)
PlotVersionReport ==
    /\ pc = "plot"
    /\ combined_df' = historical_data \o projected_data
    /\ pc' = "done"
    /\ UNCHANGED <<issues, version, today, raised, printed,
                   earliest_date, latest_date, current_date, data,
                   cumulative_story_points_completed,
                   cumulative_estimated_story_points,
                   cumulative_unestimated_stories,
                   total_story_count, last_known_values,
                   version_start_date, historical_data,
                   model, projected_points, conf_int, projected_data>>

(* lines 269-270: except (IndexError, ValueError).                         *)
ExceptInvalidSelection ==
    /\ pc = "except"
    /\ raised \in {"IndexError", "ValueError"}
    /\ printed' = Append(printed, "Invalid selection.")
    /\ pc' = "invalid"
    /\ UNCHANGED <<issues, version, today, raised,
                   earliest_date, latest_date, current_date, data,
                   cumulative_story_points_completed,
                   cumulative_estimated_story_points,
                   cumulative_unestimated_stories,
                   total_story_count, last_known_values,
                   version_start_date, historical_data,
                   model, projected_points, conf_int, projected_data, combined_df>>

(* ------------------------------ inputs --------------------------------- *)

Done == Item(StatusField, "Done")
ToDo == Item(StatusField, "To Do")
Estimate(s) == Item(EstimateField, s)

AllItemLists == {<<Done>>, <<ToDo>>, <<Estimate("3")>>, <<Estimate("5")>>,
                 <<Estimate("")>>}

FewItemLists == {<<Estimate("3")>>, <<Done>>, <<Estimate("5"), Done>>}

RECURSIVE SeqOfDays(_)
SeqOfDays(S) ==
    IF S = {} THEN <<>> ELSE <<MinDay(S)>> \o SeqOfDays(S \ {MinDay(S)})

(* The changelogs with at most maxLen histories, on distinct days, oldest  *)
(* first.                                                                  *)
Changelogs(maxLen, itemLists) ==
    UNION {{[i \in 1..Cardinality(S) |->
                [created |-> SeqOfDays(S)[i], items |-> f[SeqOfDays(S)[i]]]] :
            f \in [S -> itemLists]} :
           S \in {T \in SUBSET Days : Cardinality(T) <= maxLen}}

(* The tracker delivers a changelog oldest first or newest first.          *)
EitherOrder(logs) == logs \cup {Reverse(h) : h \in logs}

IssueLists(n, types, logs) ==
    {[i \in 1..n |-> [key |-> i, issuetype |-> f[i].issuetype,
                      histories |-> f[i].histories]] :
        f \in [1..n -> [issuetype : types, histories : logs]]}

(* The two-Story scenario: A estimated 5 on day 1 and Done on day 3,       *)
(* B estimated 3 on day 2.                                                 *)
ScenarioIssues ==
    <<[key |-> 1, issuetype |-> "Story",
       histories |-> <<[created |-> 1, items |-> <<Estimate("5")>>],
                       [created |-> 3, items |-> <<Done>>]>>],
      [key |-> 2, issuetype |-> "Story",
       histories |-> <<[created |-> 2, items |-> <<Estimate("3")>>]>>]>>

(* One Story with a long changelog.                                        *)
RichInputs ==
    /\ issues \in IssueLists(1, {"Story"},
                             EitherOrder(Changelogs(MaxHistories, AllItemLists)))
    /\ today = MaxDay
    /\ version = [startDate |-> 1, releaseDate |-> MaxDay + 1]

(* Up to MaxIssues issues, Stories and others, with short changelogs.      *)
ManyInputs ==
    /\ issues \in {ScenarioIssues} \cup
                  UNION {IssueLists(n, {"Story", "Bug"}, Changelogs(1, FewItemLists)) :
                         n \in 0..MaxIssues}
    /\ today = MaxDay
    /\ version = [startDate |-> 1, releaseDate |-> MaxDay + 1]

(* One Story under every as-of day, start date and release date.           *)
DatedInputs ==
    /\ issues \in IssueLists(1, {"Story"}, Changelogs(2, FewItemLists))
    /\ today \in Days
    /\ version \in [startDate : 1..(MaxDay + 1), releaseDate : 1..(MaxDay + 2)]

Init ==
    /\ RichInputs \/ ManyInputs \/ DatedInputs
    /\ pc = "calc"
    /\ raised = "none"
    /\ printed = <<>>
    /\ earliest_date = 0
    /\ latest_date = 0
    /\ current_date = 0
    /\ data = <<>>
    /\ cumulative_story_points_completed = 0
    /\ cumulative_estimated_story_points = 0
    /\ cumulative_unestimated_stories = 0
    /\ total_story_count = 0
    /\ last_known_values = <<>>
    /\ version_start_date = 0
    /\ historical_data = <<>>
    /\ model = NoModel
    /\ projected_points = <<>>
    /\ conf_int = <<>>
    /\ projected_data = <<>>
    /\ combined_df = <<>>

Next ==
    \/ ReturnNoIssues
    \/ UnpackNone
    \/ RaiseNoHistories
    \/ BeginReplay
    \/ ReplayDay
    \/ ReturnHistorical
    \/ Projection
    \/ ProjectionRaises
    \/ PlotVersionReport
    \/ ExceptInvalidSelection

Spec == Init /\ [][Next]_vars

(* ------------------------------ properties ----------------------------- *)

Max(a, b) == IF a >= b THEN a ELSE b

(* The replay loop has ended and the frame was returned to line 266.       *)
HistoricalReturned == earliest_date # 0 /\ pc # "loop"

(* projection_of_progress returned its two frames.                         *)
ProjectionReturned == pc \in {"plot", "done"}

(* projection_of_progress has run, whether it returned or raised.          *)
ProjectionEnded ==
    \/ ProjectionReturned
    \/ pc \in {"except", "invalid"} /\ earliest_date # 0

Stories == {i \in 1..Len(issues) : issues[i].issuetype = "Story"}

(* C1: the two-Story scenario yields exactly the four snapshots            *)
(* day 1 (estimated 5, completed 0, unestimated 50%), day 2 (8, 0, 0%),    *)
(* day 3 (8, 5, 0%), day 4 as day 3.                                       *)
C1_ScenarioSnapshots ==
    (issues = ScenarioIssues /\ HistoricalReturned) =>
        data = <<[Date |-> 1, Completed |-> 0, Estimated |-> 5, Unestimated |-> 50],
                 [Date |-> 2, Completed |-> 0, Estimated |-> 8, Unestimated |-> 0],
                 [Date |-> 3, Completed |-> 5, Estimated |-> 8, Unestimated |-> 0],
                 [Date |-> 4, Completed |-> 5, Estimated |-> 8, Unestimated |-> 0]>>

(* C2, as claimed: the returned series has exactly one snapshot per day    *)
(* from the earliest event day to the as-of day, whatever the start date.  *)
C2_EveryDayReturned ==
    HistoricalReturned =>
        /\ Len(historical_data) = Max(0, latest_date - earliest_date + 1)
        /\ \A i \in 1..Len(historical_data) :
              historical_data[i].Date = earliest_date + i - 1

(* C2, amended: one snapshot is computed per day from the earliest event   *)
(* day to the as-of day, and the returned series is exactly those of the   *)
(* days from max(earliest event day, version start date - 1 day) to the    *)
(* as-of day, in increasing order, none missing and none twice.            *)
C2_EveryDayFromStart ==
    HistoricalReturned =>
        LET first == Max(earliest_date, version.startDate - 1)
        IN /\ earliest_date = MinDay(AllHistoryDays)
           /\ latest_date = today
           /\ Len(data) = Max(0, latest_date - earliest_date + 1)
           /\ \A i \in 1..Len(data) : data[i].Date = earliest_date + i - 1
           /\ Len(historical_data) = Max(0, latest_date - first + 1)
           /\ \A i \in 1..Len(historical_data) :
                 /\ historical_data[i].Date = first + i - 1
                 /\ historical_data[i].Days = i - 1

C2_Witness ==
    /\ HistoricalReturned
    /\ version.startDate - 1 > earliest_date
    /\ Len(historical_data) >= 2

(* A Story is marked Done on a day as of which it has no size estimate.    *)
MarkedDoneUnestimated(issue) ==
    \E d \in Days :
        /\ StateAsOf(issue, d).completed
        /\ ~StateAsOf(issue, d - 1).completed
        /\ StateAsOf(issue, d).story_points = 0

(* C3: when no Story is marked Done without a size estimate, every         *)
(* snapshot has completed <= estimated, also after the estimate of a Done  *)
(* Story is raised, lowered or removed.                                    *)
C3_Conservation ==
    (\A i \in Stories : ~MarkedDoneUnestimated(issues[i])) =>
        \A r \in 1..Len(data) : data[r].Completed <= data[r].Estimated

(* C4: a Story not Done as of day d0, Done as of a later day and not Done  *)
(* as of a later day d2, no other Story changing completion in between:    *)
(* the completed total of day d2 equals that of day d0.                    *)
C4_ReversalNetZero ==
    \A i \in Stories : \A r0, r1, r2 \in 1..Len(data) :
        ( /\ r0 < r1 /\ r1 < r2
          /\ ~StateAsOf(issues[i], data[r0].Date).completed
          /\ StateAsOf(issues[i], data[r1].Date).completed
          /\ ~StateAsOf(issues[i], data[r2].Date).completed
          /\ \A j \in Stories \ {i} : \A r \in r0..r2 :
                StateAsOf(issues[j], data[r].Date).completed
                   = StateAsOf(issues[j], data[r0].Date).completed )
        => data[r2].Completed = data[r0].Completed

(* C5: with non-negative size estimates every snapshot has completed >= 0, *)
(* estimated >= 0 and an unestimated percentage within 0..100.             *)
C5_SnapshotRanges ==
    \A r \in 1..Len(data) :
        /\ data[r].Completed >= 0
        /\ data[r].Estimated >= 0
        /\ data[r].Unestimated >= 0
        /\ data[r].Unestimated <= 100

(* C6: an empty item collection, or one without any change event, ends in  *)
(* the "no data" outcome (the message and the None of lines 41-42), not    *)
(* in an unrelated error, and no snapshot is computed.                     *)
C6_NoDataOutcome ==
    ((issues = <<>> \/ AllHistoryDays = {}) /\ pc # "calc") =>
        /\ printed # <<>>
        /\ printed[1] = "No issues found"
        /\ "Invalid selection." \notin {printed[i] : i \in 1..Len(printed)}
        /\ data = <<>>

C8_ContinuityShift ==
    ProjectionReturned =>
        LET start_value == Last(historical_data).Completed * model.den
            offset == start_value - (model.const + model.Days * projected_data[1].Days)
        IN /\ model.den > 0
           /\ projected_data[1].Projected = start_value
           /\ \A i \in 1..Len(projected_data) :
                 /\ projected_points[i] = model.const + model.Days * projected_data[i].Days
                 /\ projected_data[i].Projected - projected_points[i] = offset
                 /\ projected_data[i].Lower - conf_int[i][1] = offset
                 /\ projected_data[i].Upper - conf_int[i][2] = offset

C8_Witness ==
    /\ pc = "done"
    /\ Len(projected_data) >= 2
    /\ model.Days # 0
    /\ projected_data[2].Lower < projected_data[2].Projected
    /\ projected_data[1].Projected # projected_points[1]

(* C9: a historical series of exactly one day ends in "forecast not        *)
(* computable": no line is fitted and no forecast point is produced, and   *)
(* the historical series is returned to the caller.                        *)
C9_SingleDayNoForecast ==
    (Len(historical_data) = 1 /\ ProjectionEnded) =>
        /\ model = NoModel
        /\ projected_data = <<>>
        /\ pc \notin {"except", "invalid"}

(* The state of an issue as of a day, read off its changelog directly: the *)
(* last item of the given field in the latest history up to that day.      *)
HistoriesWith(issue, field, day) ==
    {j \in 1..Len(issue.histories) :
        /\ issue.histories[j].created <= day
        /\ \E k \in 1..Len(issue.histories[j].items) :
              issue.histories[j].items[k].field = field}

LastValue(issue, field, day) ==
    LET js == HistoriesWith(issue, field, day)
        j == CHOOSE x \in js : \A y \in js :
                issue.histories[y].created <= issue.histories[x].created
        items == issue.histories[j].items
        ks == {k \in 1..Len(items) : items[k].field = field}
        k == CHOOSE x \in ks : \A y \in ks : y <= x
    IN items[k].toString

SizeAsOf(issue, day) ==
    IF HistoriesWith(issue, EstimateField, day) = {} THEN 0
    ELSE LET s == LastValue(issue, EstimateField, day)
         IN IF s = "5" THEN 5 ELSE IF s = "3" THEN 3 ELSE 0

DoneAsOf(issue, day) ==
    /\ HistoriesWith(issue, StatusField, day) # {}
    /\ LastValue(issue, StatusField, day) = "Done"

RECURSIVE SumOfSizes(_, _)
SumOfSizes(memo, keys) ==
    IF keys = {} THEN 0
    ELSE LET k == CHOOSE x \in keys : TRUE
         IN memo[k].story_points + SumOfSizes(memo, keys \ {k})

(* C10: after each day d of the replay loop the memo of every Story is its *)
(* state as of d (size of its last estimate event up to d, 0 if none or    *)
(* empty; completed iff its last status event up to d is Done), the        *)
(* estimated total is the sum of the memoized sizes of the Stories, and a  *)
(* non-Story keeps its initial memo and adds nothing to the totals.        *)
C10_MemoIsStateAsOfDay ==
    (pc = "loop" /\ data # <<>>) =>
        LET d == Last(data).Date
        IN /\ d = current_date - 1
           /\ \A i \in 1..Len(issues) :
                 last_known_values[issues[i].key] =
                    IF i \in Stories
                    THEN [story_points |-> SizeAsOf(issues[i], d),
                          completed |-> DoneAsOf(issues[i], d)]
                    ELSE [story_points |-> 0, completed |-> FALSE]
           /\ cumulative_estimated_story_points =
                 SumOfSizes(last_known_values, {issues[i].key : i \in Stories})
           /\ Last(data).Estimated = cumulative_estimated_story_points
           /\ Stories = {} =>
                 /\ cumulative_estimated_story_points = 0
                 /\ cumulative_story_points_completed = 0

C10_Witness ==
    /\ pc = "loop"
    /\ Len(data) >= 2
    /\ \E i \in Stories :
          /\ last_known_values[issues[i].key].story_points # 0
          /\ last_known_values[issues[i].key].completed
    /\ \E i \in 1..Len(issues) :
          /\ i \notin Stories
          /\ \E j \in 1..Len(issues[i].histories) :
                issues[i].histories[j].created < current_date

====
